---- MODULE Spec2Model ----
(***************************************************************************)
(* MacGuardian event buses.                                                *)
(*                                                                         *)
(*   threaded bus   MacGuardianSuite/event_bus.py          (SpecBus)       *)
(*   batched bus    MacGuardianSuite/outputs/event_bus_batched.py          *)
(*   websocket bus  MacGuardianSuite/outputs/event_bus.py                  *)
(*   local sink     MacGuardianSuite/outputs/local.py                      *)
(*                                                                         *)
(* Each component has its own variables and its own specification; the     *)
(* variables of the other components stay at their initial values.         *)
(***************************************************************************)
EXTENDS Integers, Sequences, FiniteSets, TLC

\* ------------------------------------------------------------------ bounds
\* queue.Queue(maxsize=10000), scaled
QueueCap == 1
\* batch_size = 100 of _worker, scaled
BatchSize == 2
\* emit calls made when a burst overflows the queue
MaxBurstEmits == 4
\* number of emit calls explored
MaxEmits == 3
\* number of register_output calls explored
MaxHandlers == 2
\* int(time.time()) takes the values 0..MaxClock
MaxClock == 1

\* buffer_files[:10] of _flush_buffer, scaled
FlushFiles == 1

\* max_file_size (10 MB), scaled, in bytes
MaxFileSize == 4
\* events per batch and bytes per event line given to LocalOutput
MaxBatchLen == 2
MaxLineBytes == 3
\* seconds of wall clock and bytes written explored for LocalOutput
MaxSeconds == 2
MaxWritten == 12
\* add_event calls explored
MaxAdds == 3
\* MAX_EVENTS_CACHE = 1000, scaled
CacheMax == 2
\* the backlog event_cache[-100:] of handle_websocket, scaled
BacklogLen == 2
\* process_event calls explored
MaxSubmits == 3
\* datetime.utcnow() and the event timestamps take the seconds 0..MaxTime
MaxTime == 6
\* deque(maxlen=1000) of EventBusBatched, scaled
BufferMaxLen == 3
\* BATCH_SIZE = 50, scaled
BatchedBatchSize == 2
\* DEDUP_WINDOW = timedelta(seconds=5)
DEDUP_WINDOW == 5
\* COMPRESS_THRESHOLD = 1024
COMPRESS_THRESHOLD == 1024

VARIABLES
    \* ---- threaded EventBus (event_bus.py)
    running,          \* self.running
    event_queue,      \* self.event_queue, a FIFO of event ids
    output_handlers,  \* self.output_handlers, in registration order
    stats,            \* self.stats
    buffer_dir,       \* buffer_<second>.jsonl.gz files: second -> content
    clock,            \* int(time.time()) at the latest overflow write
    workerPc,         \* position of the _worker thread
    batch,            \* _worker's local batch
    flusherPc,        \* position of the _buffer_flusher thread
    stopPc,           \* position of the thread that calls stop()
    flush,            \* per caller of _flush_buffer: its locals
    \* ---- history of the threaded bus
    nEmit,            \* emit calls made so far; the n-th emitted event is n
    calls,            \* every handler invocation, in order
    onDisk,           \* events written to an overflow file
    writeFailed,      \* events whose overflow write failed
    emitsAtStop,      \* nEmit when stop() was called, -1 before
    \* ---- threads that call emit concurrently
    emitters,         \* per thread: its position in emit and the counter value
                      \* it has loaded for `self.stats[key] += 1`
    \* ---- EventBusBatched (outputs/event_bus_batched.py)
    clients,          \* self.clients
    event_buffer,     \* self.event_buffer, a deque(maxlen=1000)
    recent_hashes,    \* self.recent_hashes: fingerprint -> event time
    utcnow,           \* datetime.utcnow(), in seconds
    uds,              \* the socket listener, its one connection at a time, and
                      \* the number of malformed records read
    \* ---- history of the batched bus
    submitted,        \* the latest process_event call: its number n, the record,
                      \* the wall-clock time, and how it ended
    acceptedTs,       \* per fingerprint: timestamp of the latest appended record
    got,              \* got[c]: the batches subscriber c was sent
    \* ---- websocket EventBus (outputs/event_bus.py)
    event_cache,      \* self.event_cache, the n-th event added is n
    websocket_clients,\* self.websocket_clients
    handler,          \* handle_websocket per subscriber: position and locals
    tasks,            \* the broadcast_event task of each event added
    wsuds,            \* the socket listener, and the records it has read
    \* ---- history of the websocket bus
    received,         \* received[c]: the events written to subscriber c
    \* ---- the mapping a caller passes to emit
    passed,           \* the latest emit call with a mapping: its number, the
                      \* caller's mapping before and after the call, and the
                      \* normalized event
    \* ---- _hash_event applied to two records
    hashed,           \* the two records, their fingerprints once computed
    \* ---- LocalOutput (outputs/local.py)
    enabled,          \* self.enabled
    current_file,     \* self.current_file: None, or the second in its name
    file_size,        \* self.file_size
    utcsecond,        \* datetime.utcnow() to the second
    \* ---- the directory LocalOutput writes, and what it was given
    files,            \* files[name]: bytes in events_<name>.jsonl, -1 if absent
    written,          \* bytes of all the batches written
    \* ---- Event and normalize_event (outputs/event_bus.py)
    raw_data,         \* the raw mapping given to normalize_event or from_dict
    normPc,           \* "raw", then "normalized" or "raised" (normalize_event),
                      \* "built" or "not_built" (from_dict), then "serialized"
    event,            \* the Event returned
    warned,           \* whether the validation warning was printed
    message_json      \* json.loads of event.to_json()

emitVars == <<emitters>>

busVars == <<running, event_queue, output_handlers, stats, buffer_dir, clock,
             workerPc, batch, flusherPc, stopPc, flush,
             nEmit, calls, onDisk, writeFailed, emitsAtStop, emitVars>>

batVars == <<clients, event_buffer, recent_hashes, utcnow, uds, submitted,
             acceptedTs, got>>

wsVars == <<event_cache, websocket_clients, handler, tasks, wsuds, received>>

locVars == <<enabled, current_file, file_size, utcsecond, files, written>>

normVars == <<raw_data, normPc, event, warned, message_json>>

fpVars == <<hashed>>

argVars == <<passed>>

others == <<batVars, wsVars, locVars, normVars, fpVars, argVars>>

notBus == <<others, emitVars>>

vars == <<busVars, batVars, wsVars, locVars, normVars, fpVars, argVars>>

\* ------------------------------------------------------------ helpers
\* a buffer file that does not exist: one that exists holds at least one event
NoFile == <<>>
Seconds == 0..MaxClock
Callers == {"flusher", "stop"}
\* the threads that call emit
EmitThreads == {"t1", "t2"}

Min(a, b) == IF a < b THEN a ELSE b

RECURSIVE SortedSeq(_)
\* sorted(...) of a set of file names (names order as their seconds do)
SortedSeq(S) ==
    IF S = {} THEN <<>>
    ELSE LET m == CHOOSE x \in S : \A y \in S : x <= y
         IN <<m>> \o SortedSeq(S \ {m})

SeqToSet(s) == {s[i] : i \in 1..Len(s)}

\* ------------------------------------------------- threaded EventBus
\* __init__
BusInit ==
    /\ running = FALSE
    /\ event_queue = <<>>
    /\ output_handlers = <<>>
    /\ stats = [events_received |-> 0, events_sent |-> 0,
                events_dropped |-> 0, buffer_size |-> 0]
    /\ buffer_dir = [s \in Seconds |-> NoFile]
    /\ clock = 0
    /\ workerPc = "none"
    /\ batch = <<>>
    /\ flusherPc = "none"
    /\ stopPc = "none"
    /\ flush = [c \in Callers |-> [pc |-> "idle", todo |-> <<>>, events |-> <<>>]]
    /\ nEmit = 0
    /\ calls = <<>>
    /\ onDisk = {}
    /\ writeFailed = {}
    /\ emitsAtStop = -1
    /\ emitters = [t \in EmitThreads |->
                     [pc |-> "idle", key |-> "events_received", tmp |-> 0]]

\* _process_batch(batch) with the handlers in `raises` raising: what it leaves
\* behind.  calls: the handler invocations appended; stats: the statistics;
\* queue: the in-memory queue; propagated: whether an exception leaves it.
\* (first, the same with the try/except around the whole loop)
process_batch_stop_at_failure(handlers, q, cs, st, b, raises) ==
    IF b = <<>> THEN [calls |-> cs, stats |-> st, queue |-> q, propagated |-> FALSE]
    ELSE LET bad == {i \in 1..Len(handlers) : handlers[i] \in raises}
             n == IF bad = {} THEN Len(handlers)
                  ELSE CHOOSE i \in bad : \A j \in bad : i <= j
         IN [calls |-> cs \o [i \in 1..n |-> [h |-> handlers[i], batch |-> b]],
             stats |-> [st EXCEPT !.events_sent = @ + Len(b) *
                          Cardinality({i \in 1..n : handlers[i] \notin raises}),
                                  !.buffer_size = Len(q)],
             queue |-> q,
             propagated |-> bad # {}]

process_batch(handlers, q, cs, st, b, raises) ==
    IF b = <<>> THEN [calls |-> cs, stats |-> st, queue |-> q, propagated |-> FALSE]
    ELSE [calls |-> cs \o [i \in 1..Len(handlers) |-> [h |-> handlers[i], batch |-> b]],
          stats |-> [st EXCEPT !.events_sent = @ + Len(b) *
                        Cardinality({i \in 1..Len(handlers) : handlers[i] \notin raises}),
                               !.buffer_size = Len(q)],
          queue |-> q,
          propagated |-> FALSE]

\* register_output(handler); the handlers are registered before the first emit
RegisterOutput ==
    /\ Len(output_handlers) < MaxHandlers
    /\ nEmit = 0
    /\ output_handlers' = Append(output_handlers, Len(output_handlers) + 1)
    /\ UNCHANGED <<running, event_queue, stats, buffer_dir, clock, workerPc, batch,
                   flusherPc, stopPc, flush, nEmit, calls, onDisk, writeFailed, emitsAtStop,
                   notBus>>

\* start()
Start ==
    /\ workerPc = "none"
    /\ stopPc = "none"
    /\ running' = TRUE
    /\ workerPc' = "check"
    /\ flusherPc' = "check"
    /\ UNCHANGED <<event_queue, output_handlers, stats, buffer_dir, clock, batch,
                   stopPc, flush, nEmit, calls, onDisk, writeFailed, emitsAtStop,
                   notBus>>

\* _write_to_buffer(event): gzip.open(buffer_<second>, "at") and one line
write_to_buffer(dir, now, e) ==
    [dir EXCEPT ![now] = Append(@, e)]

\* emit(event), the queue has room: put_nowait succeeds
EmitQueued ==
    /\ nEmit < MaxEmits
    /\ Len(event_queue) < QueueCap
    /\ nEmit' = nEmit + 1
    /\ event_queue' = Append(event_queue, nEmit + 1)
    /\ stats' = [stats EXCEPT !.events_received = @ + 1]
    /\ UNCHANGED <<running, output_handlers, buffer_dir, clock, workerPc, batch,
                   flusherPc, stopPc, flush, calls, onDisk, writeFailed, emitsAtStop,
                   notBus>>

\* emit(event), queue.Full, and _write_to_buffer returns; int(time.time()) has
\* moved on to `now` since the last overflow write.  limit bounds the emit
\* calls made
emit_buffered(limit) ==
    /\ nEmit < limit
    /\ Len(event_queue) >= QueueCap
    /\ nEmit' = nEmit + 1
    /\ \E now \in clock..MaxClock :
        /\ clock' = now
        /\ buffer_dir' = write_to_buffer(buffer_dir, now, nEmit + 1)
    /\ stats' = [stats EXCEPT !.events_dropped = @ + 1]
    /\ onDisk' = onDisk \cup {nEmit + 1}
    /\ UNCHANGED <<running, event_queue, output_handlers, workerPc, batch,
                   flusherPc, stopPc, flush, calls, writeFailed, emitsAtStop,
                   notBus>>

EmitBuffered == emit_buffered(MaxEmits)

\* emit(event) during a burst that outruns the worker: the queue is full
EmitBurst == emit_buffered(MaxBurstEmits)

\* a gzip member that _write_to_buffer left incomplete: gzip.open(..., "rt")
\* raises on it (EOFError, BadGzipFile)
Torn == 0
Unreadable(content) == \E i \in 1..Len(content) : content[i] = Torn

\* emit(event), queue.Full, and _write_to_buffer raises in f.write or in the
\* close of the file (OSError: disk full) after gzip.open has created or
\* extended the file: the file is left with an incomplete member
EmitWriteTorn ==
    /\ nEmit < MaxEmits
    /\ Len(event_queue) >= QueueCap
    /\ nEmit' = nEmit + 1
    /\ \E now \in clock..MaxClock :
        /\ clock' = now
        /\ buffer_dir' = write_to_buffer(buffer_dir, now, Torn)
    /\ writeFailed' = writeFailed \cup {nEmit + 1}
    /\ UNCHANGED <<running, event_queue, output_handlers, stats, workerPc, batch,
                   flusherPc, stopPc, flush, calls, onDisk, emitsAtStop,
                   notBus>>

\* emit(event), queue.Full, and _write_to_buffer raises (OSError: disk full):
\* nothing catches it, the statement after the call is not reached
EmitWriteFails ==
    /\ nEmit < MaxEmits
    /\ Len(event_queue) >= QueueCap
    /\ nEmit' = nEmit + 1
    /\ writeFailed' = writeFailed \cup {nEmit + 1}
    /\ UNCHANGED <<running, event_queue, output_handlers, stats, buffer_dir, clock,
                   workerPc, batch, flusherPc, stopPc, flush, calls, onDisk, emitsAtStop,
                   notBus>>

\* a nested mapping of the caller's event (data, metadata): absent, or a dict
\* with its keys
NoMapping == [present |-> FALSE, keys |-> {}]
Mappings(ks) == {NoMapping} \cup {[present |-> TRUE, keys |-> k] : k \in SUBSET ks}
\* the mappings callers pass to emit
EmitArgs == [event_type : {"test.event"},
             data : Mappings({"counter"}),
             metadata : Mappings({"correlation_id", "tag"})]

\* event.get(key, {}): the caller's own dict when the key is there, a new
\* empty dict otherwise
get_or_new(m) == [present |-> TRUE, keys |-> m.keys]

\* _normalize_event(event): the normalized event, and the caller's mapping as
\* the call leaves it.  normalized["metadata"] is the caller's metadata dict
\* whenever the caller passed one, so the correlation id stored in it is
\* stored in the caller's dict
bus_normalize_event(ev) ==
    LET md == get_or_new(ev.metadata)
        adds == "correlation_id" \notin md.keys
        withId == [md EXCEPT !.keys = @ \cup {"correlation_id"}]
    IN [normalized |-> [event_type |-> ev.event_type,
                        data |-> get_or_new(ev.data),
                        metadata |-> withId],
        event |-> IF ev.metadata.present /\ adds
                  THEN [ev EXCEPT !.metadata = withId]
                  ELSE ev]

NoCall == [n |-> 0, before |-> CHOOSE ev \in EmitArgs : TRUE,
           after |-> CHOOSE ev \in EmitArgs : TRUE,
           normalized |-> bus_normalize_event(CHOOSE ev \in EmitArgs : TRUE).normalized]

\* no emit call with a mapping yet
ArgInit == passed = NoCall

\* emit(event) with the caller's mapping ev: _normalize_event, then
\* put_nowait, or on queue.Full _write_to_buffer, and the counter
EmitMapping ==
    /\ nEmit < MaxEmits
    /\ nEmit' = nEmit + 1
    /\ \E ev \in EmitArgs :
         LET r == bus_normalize_event(ev)
         IN passed' = [n |-> nEmit + 1, before |-> ev, after |-> r.event,
                       normalized |-> r.normalized]
    /\ IF Len(event_queue) < QueueCap
       THEN /\ event_queue' = Append(event_queue, nEmit + 1)
            /\ stats' = [stats EXCEPT !.events_received = @ + 1]
            /\ UNCHANGED <<clock, buffer_dir, onDisk>>
       ELSE /\ \E now \in clock..MaxClock :
                 /\ clock' = now
                 /\ buffer_dir' = write_to_buffer(buffer_dir, now, nEmit + 1)
            /\ stats' = [stats EXCEPT !.events_dropped = @ + 1]
            /\ onDisk' = onDisk \cup {nEmit + 1}
            /\ UNCHANGED event_queue
    /\ UNCHANGED <<running, output_handlers, workerPc, batch, flusherPc, stopPc,
                   flush, calls, writeFailed, emitsAtStop, emitVars,
                   batVars, wsVars, locVars, normVars, fpVars>>

\* emit(event) in thread t up to the statistics update: put_nowait succeeds,
\* or raises queue.Full and _write_to_buffer returns.  What follows is
\* `self.stats[key] += 1`
EmitPut(t) ==
    /\ emitters[t].pc = "idle"
    /\ nEmit < MaxEmits
    /\ nEmit' = nEmit + 1
    /\ IF Len(event_queue) < QueueCap
       THEN /\ event_queue' = Append(event_queue, nEmit + 1)
            /\ emitters' = [emitters EXCEPT ![t].pc = "load",
                                            ![t].key = "events_received"]
            /\ UNCHANGED <<clock, buffer_dir, onDisk>>
       ELSE /\ \E now \in clock..MaxClock :
                 /\ clock' = now
                 /\ buffer_dir' = write_to_buffer(buffer_dir, now, nEmit + 1)
            /\ onDisk' = onDisk \cup {nEmit + 1}
            /\ emitters' = [emitters EXCEPT ![t].pc = "load",
                                            ![t].key = "events_dropped"]
            /\ UNCHANGED event_queue
    /\ UNCHANGED <<running, output_handlers, stats, workerPc, batch, flusherPc,
                   stopPc, flush, calls, writeFailed, emitsAtStop, others>>

\* `self.stats[key] += 1` in thread t: the counter is read
EmitLoad(t) ==
    /\ emitters[t].pc = "load"
    /\ emitters' = [emitters EXCEPT ![t].pc = "store",
                                    ![t].tmp = stats[emitters[t].key]]
    /\ UNCHANGED <<running, event_queue, output_handlers, stats, buffer_dir, clock,
                   workerPc, batch, flusherPc, stopPc, flush, nEmit, calls, onDisk,
                   writeFailed, emitsAtStop, others>>

\* `self.stats[key] += 1` in thread t: the value read plus one is stored, and
\* emit returns
EmitStore(t) ==
    /\ emitters[t].pc = "store"
    /\ stats' = [stats EXCEPT ![emitters[t].key] = emitters[t].tmp + 1]
    /\ emitters' = [emitters EXCEPT ![t].pc = "idle", ![t].tmp = 0]
    /\ UNCHANGED <<running, event_queue, output_handlers, buffer_dir, clock,
                   workerPc, batch, flusherPc, stopPc, flush, nEmit, calls, onDisk,
                   writeFailed, emitsAtStop, others>>

\* _worker: while self.running
WorkerCheck ==
    /\ workerPc = "check"
    /\ workerPc' = IF running THEN "get" ELSE "done"
    /\ UNCHANGED <<running, event_queue, output_handlers, stats, buffer_dir, clock,
                   batch, flusherPc, stopPc, flush, nEmit, calls, onDisk,
                   writeFailed, emitsAtStop,
                   notBus>>

\* _worker: event_queue.get(timeout=0.1) returns an event; the batch is
\* processed when it is full or the flush interval has passed (timeUp)
WorkerGet ==
    /\ workerPc = "get"
    /\ event_queue # <<>>
    /\ \E timeUp \in BOOLEAN, raises \in SUBSET SeqToSet(output_handlers) :
        LET b == Append(batch, Head(event_queue))
            q == Tail(event_queue)
            r == process_batch(output_handlers, q, calls, stats, b, raises)
        IN IF Len(b) >= BatchSize \/ timeUp
           THEN /\ event_queue' = r.queue
                /\ calls' = r.calls
                /\ stats' = r.stats
                /\ batch' = <<>>
                /\ workerPc' = IF r.propagated THEN "dead" ELSE "check"
           ELSE /\ raises = {}
                /\ event_queue' = q
                /\ batch' = b
                /\ workerPc' = "check"
                /\ UNCHANGED <<calls, stats>>
    /\ UNCHANGED <<running, output_handlers, buffer_dir, clock, flusherPc, stopPc,
                   flush, nEmit, onDisk, writeFailed, emitsAtStop,
                   notBus>>

\* (the handler of queue.Empty without its flush of the partial batch)
WorkerEmpty_no_flush ==
    /\ workerPc = "get"
    /\ event_queue = <<>>
    /\ workerPc' = "check"
    /\ UNCHANGED <<running, event_queue, output_handlers, stats, buffer_dir, clock,
                   batch, flusherPc, stopPc, flush, nEmit, calls, onDisk, writeFailed,
                   emitsAtStop,
                   notBus>>

\* _worker: event_queue.get(timeout=0.1) raises queue.Empty; a partial batch
\* is processed
WorkerEmpty ==
    /\ workerPc = "get"
    /\ event_queue = <<>>
    /\ \E raises \in SUBSET SeqToSet(output_handlers) :
        LET r == process_batch(output_handlers, event_queue, calls, stats, batch, raises)
        IN /\ (batch = <<>> => raises = {})
           /\ event_queue' = r.queue
           /\ calls' = r.calls
           /\ stats' = r.stats
           /\ batch' = <<>>
           /\ workerPc' = IF r.propagated THEN "dead" ELSE "check"
    /\ UNCHANGED <<running, output_handlers, buffer_dir, clock, flusherPc, stopPc,
                   flush, nEmit, onDisk, writeFailed, emitsAtStop,
                   notBus>>

\* _worker enters _process_batch with a batch that is due (full, or its flush
\* interval over, or the queue found empty) and the first handler's call
\* handler(batch) blocks on its I/O: the worker thread is inside that call
WorkerBlocks ==
    /\ workerPc = "get"
    /\ output_handlers # <<>>
    /\ IF event_queue # <<>>
       THEN /\ batch' = Append(batch, Head(event_queue))
            /\ event_queue' = Tail(event_queue)
       ELSE /\ batch # <<>>
            /\ UNCHANGED <<batch, event_queue>>
    /\ workerPc' = "blocked"
    /\ UNCHANGED <<running, output_handlers, stats, buffer_dir, clock, flusherPc,
                   stopPc, flush, nEmit, calls, onDisk, writeFailed, emitsAtStop,
                   notBus>>

\* the blocked handler call returns (or raises), _process_batch runs to its
\* end and the worker is back in its loop
HandlerReturns ==
    /\ workerPc = "blocked"
    /\ \E raises \in SUBSET SeqToSet(output_handlers) :
        LET r == process_batch(output_handlers, event_queue, calls, stats, batch, raises)
        IN /\ calls' = r.calls
           /\ stats' = r.stats
           /\ batch' = <<>>
           /\ workerPc' = "check"
    /\ UNCHANGED <<running, event_queue, output_handlers, buffer_dir, clock,
                   flusherPc, stopPc, flush, nEmit, onDisk, writeFailed, emitsAtStop,
                   notBus>>

\* _flush_buffer goes on (f.pc is not "idle") or returns to its caller: to the
\* loop of _buffer_flusher, or to stop(), whose two join(timeout=5) calls end
\* by the thread's end or by the timeout
FlushReturn(c, f) ==
    /\ flush' = [flush EXCEPT ![c] = f]
    /\ IF f.pc # "idle" THEN UNCHANGED <<flusherPc, stopPc>>
       ELSE IF c = "flusher" THEN flusherPc' = "check" /\ UNCHANGED stopPc
       ELSE stopPc' = "done" /\ UNCHANGED flusherPc

\* buffer_files[:10] of the sorted glob
glob_sorted(dir) ==
    LET all == SortedSeq({s \in Seconds : dir[s] # NoFile})
    IN SubSeq(all, 1, Min(FlushFiles, Len(all)))

\* _flush_buffer: sorted(self.buffer_dir.glob(...))[:10]
FlushGlob(c) ==
    /\ flush[c].pc = "glob"
    /\ LET todo == glob_sorted(buffer_dir)
       IN FlushReturn(c, [pc |-> IF todo = <<>> THEN "idle" ELSE "open",
                          todo |-> todo, events |-> <<>>])
    /\ UNCHANGED <<running, event_queue, output_handlers, stats, buffer_dir, clock,
                   workerPc, batch, nEmit, calls, onDisk, writeFailed, emitsAtStop,
                   notBus>>

\* _flush_buffer: gzip.open(buffer_file, "rt") and the read loop.  A file that
\* is gone raises FileNotFoundError and one that cannot be read raises too:
\* the except clause swallows it and the file stays as it is
FlushOpen(c) ==
    /\ flush[c].pc = "open"
    /\ LET f == Head(flush[c].todo)
           rest == Tail(flush[c].todo)
       IN IF buffer_dir[f] = NoFile \/ Unreadable(buffer_dir[f])
          THEN FlushReturn(c, [pc |-> IF rest = <<>> THEN "idle" ELSE "open",
                               todo |-> rest, events |-> <<>>])
          ELSE FlushReturn(c, [flush[c] EXCEPT !.pc = "process",
                                               !.events = buffer_dir[f]])
    /\ UNCHANGED <<running, event_queue, output_handlers, stats, buffer_dir, clock,
                   workerPc, batch, nEmit, calls, onDisk, writeFailed, emitsAtStop,
                   notBus>>

\* buffer_file.unlink(): the file goes with whatever it holds now (a missing
\* file raises FileNotFoundError, swallowed)
unlink(dir, f) == [dir EXCEPT ![f] = NoFile]

\* _flush_buffer: self._process_batch(events); buffer_file.unlink()
FlushProcess(c) ==
    /\ flush[c].pc = "process"
    /\ \E raises \in SUBSET SeqToSet(output_handlers) :
        LET f == Head(flush[c].todo)
            rest == Tail(flush[c].todo)
            r == process_batch(output_handlers, event_queue, calls, stats,
                               flush[c].events, raises)
        IN /\ event_queue' = r.queue
           /\ calls' = r.calls
           /\ stats' = r.stats
           /\ buffer_dir' = IF r.propagated THEN buffer_dir ELSE unlink(buffer_dir, f)
           /\ FlushReturn(c, [pc |-> IF rest = <<>> THEN "idle" ELSE "open",
                              todo |-> rest, events |-> <<>>])
    /\ UNCHANGED <<running, output_handlers, clock, workerPc, batch, nEmit, onDisk, writeFailed, emitsAtStop,
                   notBus>>

\* _buffer_flusher: while self.running
FlusherCheck ==
    /\ flusherPc = "check"
    /\ flusherPc' = IF running THEN "sleep" ELSE "done"
    /\ UNCHANGED <<running, event_queue, output_handlers, stats, buffer_dir, clock,
                   workerPc, batch, stopPc, flush, nEmit, calls, onDisk,
                   writeFailed, emitsAtStop,
                   notBus>>

\* _buffer_flusher: time.sleep(10) ends, self._flush_buffer() is entered
FlusherWake ==
    /\ flusherPc = "sleep"
    /\ flusherPc' = "flush"
    /\ flush' = [flush EXCEPT !["flusher"].pc = "glob"]
    /\ UNCHANGED <<running, event_queue, output_handlers, stats, buffer_dir, clock,
                   workerPc, batch, stopPc, nEmit, calls, onDisk,
                   writeFailed, emitsAtStop,
                   notBus>>

\* stop(): self.running = False, then self._flush_buffer() is entered
Stop ==
    /\ stopPc = "none"
    /\ workerPc # "none"
    /\ running' = FALSE
    /\ emitsAtStop' = nEmit
    /\ stopPc' = "flush"
    /\ flush' = [flush EXCEPT !["stop"].pc = "glob"]
    /\ UNCHANGED <<event_queue, output_handlers, stats, buffer_dir, clock, workerPc,
                   batch, flusherPc, nEmit, calls, onDisk, writeFailed,
                   notBus>>

\* get_stats(): the statistics with the queue's size and the number of
\* overflow files
get_stats ==
    [events_received |-> stats.events_received,
     events_sent     |-> stats.events_sent,
     events_dropped  |-> stats.events_dropped,
     buffer_size     |-> stats.buffer_size,
     queue_size      |-> Len(event_queue),
     buffer_files    |-> Cardinality({s \in Seconds : buffer_dir[s] # NoFile})]

BusNext ==
    \/ RegisterOutput
    \/ Start
    \/ Stop
    \/ EmitQueued
    \/ EmitBuffered
    \/ EmitWriteFails
    \/ WorkerCheck
    \/ WorkerGet
    \/ WorkerEmpty
    \/ FlusherCheck
    \/ FlusherWake
    \/ \E c \in Callers : FlushGlob(c)
    \/ \E c \in Callers : FlushOpen(c)
    \/ \E c \in Callers : FlushProcess(c)

\* ------------------------------------------ threaded EventBus: properties
Handlers == SeqToSet(output_handlers)
Emitted == 1..nEmit
\* the events emit put on the in-memory queue
Queued == Emitted \ (onDisk \cup writeFailed)
\* how often handler h was handed event e
Delivered(e, h) ==
    Cardinality({i \in 1..Len(calls) : calls[i].h = h /\ e \in SeqToSet(calls[i].batch)})
DeliveredSet == UNION {SeqToSet(calls[i].batch) : i \in 1..Len(calls)}
FlushIdle == \A c \in Callers : flush[c].pc = "idle"
NoBufferFile == \A s \in Seconds : buffer_dir[s] = NoFile

C2_NoEventLost ==
    ( /\ stopPc = "none"
      /\ onDisk # {}
      /\ writeFailed = {}
      /\ Handlers # {}
      /\ event_queue = <<>>
      /\ batch = <<>>
      /\ NoBufferFile
      /\ FlushIdle )
    => DeliveredSet = Emitted

\* C7: when the worker has stopped after stop(), every event that was in the
\* queue or in the worker's batch when stop() was called has been passed to
\* the handlers.
C7_StopFlushesAll ==
    (workerPc = "done" /\ Handlers # {})
    => \A e \in SeqToSet(event_queue) \cup SeqToSet(batch) : e > emitsAtStop

\* the final _flush_buffer of stop() reads the buffer directory in this step
FinalFlushBegins ==
    /\ flush["stop"].pc = "glob"
    /\ flush'["stop"].pc # "glob"

\* C19: once stop() has been called no emit is taken in any more (nothing is
\* added to the queue or to the overflow buffer), and the final overflow
\* flush of stop() begins only when the in-memory queue and the worker's
\* partial batch have been delivered.
C19_StopOrder ==
    [][/\ stopPc # "none" =>
             /\ Len(event_queue') <= Len(event_queue)
             /\ onDisk' = onDisk
       /\ FinalFlushBegins =>
             /\ event_queue = <<>>
             /\ batch = <<>>]_vars

\* the events of all handler invocations, counted with repetition
RECURSIVE CallEvents(_)
CallEvents(n) == IF n = 0 THEN 0 ELSE Len(calls[n].batch) + CallEvents(n - 1)
HandedOver == CallEvents(Len(calls))
\* no handler invocation raised: each one was counted in events_sent
NoHandlerFailed == stats.events_sent = HandedOver

\* C20: on a running bus with handlers that did not fail, once N emits that
\* all found room in the queue have all been delivered, get_stats() reports
\* events_received = N, events_sent = N and queue_size = 0.
C20_StatsCountEachEventOnce ==
    ( /\ running
      /\ Handlers # {}
      /\ nEmit > 0
      /\ Queued = Emitted
      /\ event_queue = <<>>
      /\ batch = <<>>
      /\ DeliveredSet = Emitted
      /\ NoHandlerFailed )
    => /\ get_stats.events_received = nEmit
       /\ get_stats.events_sent = nEmit
       /\ get_stats.queue_size = 0

\* no thread is inside emit
EmittersIdle == \A t \in EmitThreads : emitters[t].pc = "idle"

\* C21: with several threads in emit, whenever none of them is inside the
\* call, events_received + events_dropped is the number of emit calls that
\* have returned, and events_received is the number of events put on the
\* queue.
C21_NoLostStatsUpdate ==
    EmittersIdle =>
        /\ stats.events_received + stats.events_dropped = nEmit
        /\ stats.events_received = Cardinality(Queued)

\* C22: while a handler is blocked delivering a batch, the worker still takes
\* the events of the queue: an event that is on the queue while the handler is
\* blocked leaves the queue (into the next batch), without the handler having
\* to return first.
C22_BlockedSinkNoStarvation ==
    \A e \in 1..MaxEmits :
        (workerPc = "blocked" /\ e \in SeqToSet(event_queue))
            ~> (e \notin SeqToSet(event_queue))

\* C23: every batch handed to an output handler of the threaded bus, by the
\* worker or by the overflow replay, is non-empty and holds at most
\* batch_size events, and every batch EventBusBatched sends to a subscriber is
\* non-empty and holds at most BATCH_SIZE events.
C23_BatchWithinSize ==
    /\ \A i \in 1..Len(calls) :
          /\ calls[i].batch # <<>>
          /\ Len(calls[i].batch) <= BatchSize
    /\ \A c \in DOMAIN got : \A i \in 1..Len(got[c]) :
          /\ got[c][i] # <<>>
          /\ Len(got[c][i]) <= BatchedBatchSize

\* C24: an event written to an overflow file is passed to each output
\* handler at most once, also when the _flush_buffer of stop() and the one of
\* the flusher thread work on the same files.
C24_OverflowReplayedAtMostOnce ==
    \A e \in onDisk : \A h \in Handlers : Delivered(e, h) <= 1

\* C26: on a started bus that keeps running, an overflow file that can be
\* read is replayed and deleted in the end, whatever the older files hold.
C26_NoFileStarved ==
    \A s \in Seconds :
        (running /\ buffer_dir[s] # NoFile /\ ~Unreadable(buffer_dir[s]))
            ~> (buffer_dir[s] = NoFile \/ Unreadable(buffer_dir[s]))

\* C30: when emit(event) has returned, the caller's mapping, with its nested
\* data and metadata mappings, holds what it held before the call.
C30_EmitLeavesArgument ==
    passed.n > 0 => passed.after = passed.before

C9_BufferedIsNotDropped ==
    [][(nEmit' = nEmit + 1 /\ (nEmit + 1) \in onDisk')
       => stats'.events_dropped = stats.events_dropped]_vars

\* C10: an emit whose overflow write fails raises events_dropped by one, returns
\* normally, and leaves the queue and the other counters as they were.
C10_FailedWriteIsDropped ==
    [][(nEmit' = nEmit + 1 /\ Len(event_queue) >= QueueCap /\ (nEmit + 1) \notin onDisk')
       => /\ stats' = [stats EXCEPT !.events_dropped = @ + 1]
          /\ (nEmit + 1) \notin writeFailed'
          /\ event_queue' = event_queue]_vars

\* the events that are in some overflow file now
InBufferFiles == UNION {SeqToSet(buffer_dir[s]) : s \in Seconds}

\* C11: with a handler registered, an event that was written to an overflow
\* file and is in no overflow file any more has been passed to the handlers;
\* a file is not deleted with an event in it that was not handed on.
C11_DeletedOnlyAfterHandedOn ==
    Handlers # {} =>
        \A e \in onDisk : e \notin InBufferFiles => e \in DeliveredSet

\* ---------------------------------------------------- EventBusBatched
Subscribers == {"s1", "s2"}

\* the raw records a producer sends: event_id ("" when absent), event_type,
\* source, a context (NoContext, or its key set and serialized length) and a
\* timestamp string: naive ("2024-01-15T10:30:45"), aware (with "Z" or an
\* offset), or bad (absent or not ISO)
NoContext == [present |-> FALSE, keys |-> {}, len |-> 0]
EventIds == {"", "a"}
EventTypes == {"process_anomaly"}
Sources == {"process_watcher"}
Contexts == {[present |-> TRUE, keys |-> {"pid"}, len |-> 14]}
Timestamps == {[kind |-> k, val |-> v] : k \in {"naive", "aware"}, v \in 0..MaxTime}
                  \cup {[kind |-> "bad", val |-> 0]}
RawEvents == [event_id : EventIds, event_type : EventTypes, source : Sources,
              context : Contexts, timestamp : Timestamps]

\* records with naive timestamps and contexts whose JSON is short, exactly
\* COMPRESS_THRESHOLD characters long, and one character longer
ThresholdContexts == {[present |-> TRUE, keys |-> {"pid"}, len |-> n] :
                         n \in {14, COMPRESS_THRESHOLD, COMPRESS_THRESHOLD + 1}}
ThresholdEvents == [event_id : EventIds, event_type : EventTypes, source : Sources,
                    context : ThresholdContexts,
                    timestamp : {t \in Timestamps : t.kind = "naive"}]

\* _hash_event: sha256 of the JSON of the key fields, taken as injective
hash_event(e) ==
    [event_id |-> e.event_id, event_type |-> e.event_type, source |-> e.source,
     has_context_keys |-> e.context.present,
     context_keys |-> IF e.context.present THEN e.context.keys ELSE {}]

Fingerprints == {hash_event(e) : e \in RawEvents}
NotSeen == [kind |-> "notseen", val |-> 0]

\* records for _hash_event: with and without identifier, of two types and
\* sources, without context and with contexts of several key sets and values
\* (len stands for the values), two timestamps and severities
FpContexts == {NoContext, [present |-> TRUE, keys |-> {}, len |-> 2]} \cup
              {[present |-> TRUE, keys |-> k, len |-> n] :
                 k \in {{"pid"}, {"pid", "name"}}, n \in {28, 30}}
FpEvents == [event_id : EventIds,
             event_type : {"process_anomaly", "network_connection"},
             source : {"process_watcher", "network_watcher"},
             context : FpContexts,
             timestamp : {t \in Timestamps : t.kind = "naive" /\ t.val <= 1},
             severity : {"low", "high"}]

\* two records handed to _hash_event, nothing computed yet
FpInitWith(a, b) ==
    hashed = [a |-> a, b |-> b, pc |-> "args",
              ha |-> hash_event(a), hb |-> hash_event(a)]

\* _hash_event(a) and _hash_event(b)
HashPair ==
    /\ hashed.pc = "args"
    /\ hashed' = [hashed EXCEPT !.pc = "hashed",
                                !.ha = hash_event(hashed.a),
                                !.hb = hash_event(hashed.b)]
    /\ UNCHANGED <<busVars, argVars, batVars, wsVars, locVars, normVars>>

\* __init__, and start() has the listener up
BatInit ==
    /\ clients = {}
    /\ event_buffer = <<>>
    /\ recent_hashes = [h \in Fingerprints |-> NotSeen]
    /\ utcnow = 0
    /\ uds = [listening |-> TRUE, conn |-> "closed", malformed |-> 0,
                fresh |-> FALSE, validAfter |-> FALSE]
    /\ submitted = [n |-> 0, event |-> CHOOSE e \in RawEvents : TRUE, at |-> 0,
                    outcome |-> "none"]
    /\ acceptedTs = [h \in Fingerprints |-> NotSeen]
    /\ got = [c \in Subscribers |-> <<>>]

\* deque.append on a deque(maxlen=BufferMaxLen): a full deque drops its
\* leftmost element
deque_append(d, x) ==
    IF Len(d) >= BufferMaxLen THEN Append(Tail(d), x) ELSE Append(d, x)

\* t1 - t2 < DEDUP_WINDOW on datetimes; mixing naive and aware is a TypeError
SubtractRaises(t1, t2) == t1.kind # t2.kind

\* the dict comprehension of the purge compares every stored time with the
\* naive cutoff: one aware entry makes it a TypeError
PurgeRaises(recent) == \E h \in Fingerprints : recent[h] # NotSeen /\ recent[h].kind = "aware"

\* json.dumps(context): the text, as long as the context says; then
\* gzip.compress of the text and base64.b64encode of the bytes
json_dumps(c) == [json |-> c]
gzip_compress(t) == [gz |-> t]
b64encode(b) == [b64 |-> b]
\* no context_compressed key
NoPayload == b64encode(gzip_compress(json_dumps(NoContext)))

\* (the comparison of the length with the threshold, including the threshold)
compress_at_or_above(c) == c.present /\ c.len >= COMPRESS_THRESHOLD

\* 'context' in event and len(context_str) > COMPRESS_THRESHOLD
compress(c) == c.present /\ c.len > COMPRESS_THRESHOLD

\* the buffered form of the n-th record: a context whose JSON is longer than
\* COMPRESS_THRESHOLD goes, gzipped and base64-coded, under context_compressed
\* (tagged: the key is there) and context becomes None
buffered(n, e) ==
    IF compress(e.context)
    THEN [n |-> n, event |-> [e EXCEPT !.context = NoContext], tagged |-> TRUE,
          context_compressed |-> b64encode(gzip_compress(json_dumps(e.context)))]
    ELSE [n |-> n, event |-> e, tagged |-> FALSE, context_compressed |-> NoPayload]

\* process_event(event), the n-th call, at wall-clock time `now`: the dedup
\* map and the buffer it leaves, and how it ended (appended, suppressed, or
\* raised: ValueError from fromisoformat, TypeError from the datetimes)
process_event(recent, buffer, now, n, e) ==
    LET h == hash_event(e)
        t == e.timestamp
        seen == recent[h] # NotSeen
        stored == [recent EXCEPT ![h] = t]
        cutoff == now - DEDUP_WINDOW
    IN IF t.kind = "bad"
       THEN [recent |-> recent, buffer |-> buffer, outcome |-> "raised"]
       ELSE IF seen /\ SubtractRaises(t, recent[h])
       THEN [recent |-> recent, buffer |-> buffer, outcome |-> "raised"]
       ELSE IF seen /\ t.val - recent[h].val < DEDUP_WINDOW
       THEN [recent |-> recent, buffer |-> buffer, outcome |-> "suppressed"]
       ELSE IF PurgeRaises(stored)
       THEN [recent |-> stored, buffer |-> buffer, outcome |-> "raised"]
       ELSE [recent |-> [g \in Fingerprints |->
                           IF stored[g] # NotSeen /\ stored[g].val > cutoff
                           THEN stored[g] ELSE NotSeen],
             buffer |-> deque_append(buffer, buffered(n, e)),
             outcome |-> "appended"]

\* datetime.utcnow() moves on
BatTick ==
    /\ utcnow < MaxTime
    /\ utcnow' = utcnow + 1
    /\ UNCHANGED <<clients, event_buffer, recent_hashes, uds, submitted, acceptedTs,
                   got, busVars, argVars, fpVars, wsVars, locVars, normVars>>

\* a producer connects to the socket: handle_uds_client starts
BatUdsConnect ==
    /\ uds.listening
    /\ uds.conn = "closed"
    /\ uds' = [uds EXCEPT !.conn = "open", !.fresh = uds.malformed > 0]
    /\ UNCHANGED <<clients, event_buffer, recent_hashes, utcnow, submitted,
                   acceptedTs, got, busVars, argVars, fpVars, wsVars, locVars, normVars>>

\* handle_uds_client: reader.read returns b"" and the loop ends
BatUdsEof ==
    /\ uds.conn = "open"
    /\ uds' = [uds EXCEPT !.conn = "closed"]
    /\ UNCHANGED <<clients, event_buffer, recent_hashes, utcnow, submitted,
                   acceptedTs, got, busVars, argVars, fpVars, wsVars, locVars, normVars>>

\* what handle_uds_client does with bytes that json.loads rejects: the
\* JSONDecodeError is printed and the read loop goes on
bat_on_malformed(u, recent, buffer) ==
    [uds |-> u, recent |-> recent, buffer |-> buffer]

\* handle_uds_client: a read returns bytes that are not JSON
BatUdsMalformed ==
    /\ uds.conn = "open"
    /\ submitted.n + uds.malformed < MaxSubmits
    /\ LET r == bat_on_malformed(uds, recent_hashes, event_buffer)
       IN /\ uds' = [r.uds EXCEPT !.malformed = @ + 1, !.fresh = FALSE]
          /\ recent_hashes' = r.recent
          /\ event_buffer' = r.buffer
    /\ UNCHANGED <<clients, utcnow, submitted, acceptedTs, got, busVars, argVars, fpVars, wsVars, locVars, normVars>>

\* handle_uds_client: a read returns one JSON record, stamped by its producer
\* with the current second or the oldest one, and process_event runs; an
\* exception from it ends the read loop and the connection
BatUdsRecord(records) ==
    /\ uds.conn = "open"
    /\ submitted.n + uds.malformed < MaxSubmits
    /\ \E e \in records :
        /\ e.timestamp.val \in {0, utcnow}
        /\ LET r == process_event(recent_hashes, event_buffer, utcnow,
                                  submitted.n + 1, e)
           IN /\ recent_hashes' = r.recent
              /\ event_buffer' = r.buffer
              /\ submitted' = [n |-> submitted.n + 1, event |-> e, at |-> utcnow,
                               outcome |-> r.outcome]
              /\ acceptedTs' = IF r.outcome = "appended"
                               THEN [acceptedTs EXCEPT ![hash_event(e)] = e.timestamp]
                               ELSE acceptedTs
              /\ uds' = [uds EXCEPT !.conn = IF r.outcome = "raised"
                                             THEN "closed" ELSE "open",
                                     !.validAfter = @ \/ uds.fresh]
    /\ UNCHANGED <<clients, utcnow, got, busVars, argVars, fpVars, wsVars, locVars, normVars>>

BatUdsEvent == BatUdsRecord(RawEvents)

\* the same with a record of ThresholdEvents
BatUdsThresholdEvent == BatUdsRecord(ThresholdEvents)

\* handle_ws_client: a subscriber connects; no backlog is sent
BatWsConnect ==
    /\ \E c \in Subscribers \ clients : clients' = clients \cup {c}
    /\ UNCHANGED <<event_buffer, recent_hashes, utcnow, uds, submitted, acceptedTs,
                   got, busVars, argVars, fpVars, wsVars, locVars, normVars>>

\* handle_ws_client: wait_closed returns, the subscriber is removed
BatWsClose ==
    /\ \E c \in clients : clients' = clients \ {c}
    /\ UNCHANGED <<event_buffer, recent_hashes, utcnow, uds, submitted, acceptedTs,
                   got, busVars, argVars, fpVars, wsVars, locVars, normVars>>

\* batch_processor after its sleep: up to BATCH_SIZE events leave the buffer
\* and broadcast_batch sends them; a subscriber whose send fails is discarded
BatBatch ==
    /\ event_buffer # <<>>
    /\ LET k == Min(BatchedBatchSize, Len(event_buffer))
           b == SubSeq(event_buffer, 1, k)
       IN /\ event_buffer' = SubSeq(event_buffer, k + 1, Len(event_buffer))
          /\ \E failed \in SUBSET clients :
               /\ clients' = clients \ failed
               /\ got' = [c \in Subscribers |->
                            IF c \in clients \ failed THEN Append(got[c], b) ELSE got[c]]
    /\ UNCHANGED <<recent_hashes, utcnow, uds, submitted, acceptedTs, busVars, argVars, fpVars, wsVars, locVars, normVars>>

BatNext ==
    \/ BatTick
    \/ BatUdsConnect
    \/ BatUdsEof
    \/ BatUdsMalformed
    \/ BatUdsEvent
    \/ BatWsConnect
    \/ BatWsClose
    \/ BatBatch

\* ------------------------------------------------- websocket EventBus
\* the websocket connections that may be made to handle_websocket
WsSubscribers == {"w1", "w2"}

\* __init__, and run() has the socket listener up
WsInit ==
    /\ event_cache = <<>>
    /\ websocket_clients = {}
    /\ handler = [c \in WsSubscribers |-> [pc |-> "none", todo |-> <<>>, open |-> FALSE]]
    /\ tasks = <<>>
    /\ wsuds = [listening |-> TRUE, malformed |-> 0, validAfter |-> FALSE]
    /\ received = [c \in WsSubscribers |-> <<>>]

\* add_event: the cache after self.event_cache.append(event) and the pop(0)
\* beyond MAX_EVENTS_CACHE
cache_append(cache, e) ==
    IF Len(cache) + 1 > CacheMax THEN Tail(Append(cache, e)) ELSE Append(cache, e)

\* handle_websocket: self.event_cache[-100:]
recent_events(cache) ==
    SubSeq(cache, Len(cache) - Min(BacklogLen, Len(cache)) + 1, Len(cache))

\* (handle_uds_client with the JSONDecodeError reaching the server)
ws_on_malformed_fatal(u) == [u EXCEPT !.listening = FALSE, !.malformed = @ + 1]

\* handle_uds_client on bytes json.loads rejects: the JSONDecodeError is
\* printed, the writer closed; the listener goes on
ws_on_malformed(u) == [u EXCEPT !.malformed = @ + 1]

\* handle_uds_client, one connection: the bytes read are not JSON
WsUdsMalformed ==
    /\ wsuds.listening
    /\ Len(tasks) + wsuds.malformed < MaxAdds
    /\ wsuds' = ws_on_malformed(wsuds)
    /\ UNCHANGED <<event_cache, websocket_clients, handler, tasks, received,
                   busVars, argVars, fpVars, batVars, locVars, normVars>>

\* handle_uds_client, one connection: the bytes read are a JSON record and
\* add_event runs: normalize, store, cache, create_task(broadcast_event)
WsUdsEvent ==
    /\ wsuds.listening
    /\ Len(tasks) + wsuds.malformed < MaxAdds
    /\ LET e == Len(tasks) + 1
       IN /\ event_cache' = cache_append(event_cache, e)
          /\ tasks' = Append(tasks, [pc |-> "pending", seen |-> {}, size |-> 0,
                                     disconnected |-> {}, audience |-> {}])
    /\ wsuds' = [wsuds EXCEPT !.validAfter = @ \/ wsuds.malformed > 0]
    /\ UNCHANGED <<websocket_clients, handler, received, busVars, argVars, fpVars, batVars, locVars, normVars>>

\* await client.send(message) up to its suspension: the message is written to
\* an open connection; on a closed one ConnectionClosed is raised
sent(rcv, c, e) == [rcv EXCEPT ![c] = Append(@, e)]

\* a broadcast_event task that has returned ("done") or raised ("failed"):
\* its locals are gone
ended(how) == [pc |-> how, seen |-> {}, size |-> 0, disconnected |-> {},
               audience |-> {}]

\* broadcast_event(event) from one suspension to the next: the guard on an
\* empty client set, one turn of `for client in self.websocket_clients`
\* (RuntimeError when the set changed size during the iteration), or the
\* removal of the disconnected clients at the end of the loop.  audience
\* remembers the clients in the set when the loop began
Broadcast(e) ==
    /\ e \in 1..Len(tasks)
    /\ tasks[e].pc \in {"pending", "iterating"}
    /\ LET t == IF tasks[e].pc = "pending"
                THEN [tasks[e] EXCEPT !.size = Cardinality(websocket_clients),
                                      !.audience = websocket_clients]
                ELSE tasks[e]
           left == websocket_clients \ t.seen
       IN IF tasks[e].pc = "pending" /\ websocket_clients = {}
          THEN /\ tasks' = [tasks EXCEPT ![e] = ended("done")]
               /\ UNCHANGED <<websocket_clients, received>>
          ELSE IF Cardinality(websocket_clients) # t.size
          THEN /\ tasks' = [tasks EXCEPT ![e] = ended("failed")]
               /\ UNCHANGED <<websocket_clients, received>>
          ELSE IF left = {}
          THEN /\ tasks' = [tasks EXCEPT ![e] = ended("done")]
               /\ websocket_clients' = websocket_clients \ t.disconnected
               /\ UNCHANGED received
          ELSE \E c \in left :
               /\ tasks' = [tasks EXCEPT ![e] =
                              [t EXCEPT !.pc = "iterating", !.seen = @ \cup {c},
                                        !.disconnected = IF handler[c].open THEN @
                                                         ELSE @ \cup {c}]]
               /\ received' = IF handler[c].open THEN sent(received, c, e) ELSE received
               /\ UNCHANGED websocket_clients
    /\ UNCHANGED <<event_cache, handler, wsuds, busVars, argVars, fpVars, batVars, locVars, normVars>>

\* handle_websocket(websocket) up to its first suspension: the subscriber is
\* added to the client set, the last events of the cache are taken as its
\* backlog and the first of them is sent
WsConnect(c) ==
    /\ handler[c].pc = "none"
    /\ LET recent == recent_events(event_cache)
       IN /\ websocket_clients' = websocket_clients \cup {c}
          /\ IF recent = <<>>
             THEN /\ handler' = [handler EXCEPT ![c] =
                                   [pc |-> "waiting", todo |-> <<>>, open |-> TRUE]]
                  /\ UNCHANGED received
             ELSE /\ handler' = [handler EXCEPT ![c] =
                                   [pc |-> "backlog", todo |-> Tail(recent), open |-> TRUE]]
                  /\ received' = sent(received, c, Head(recent))
    /\ UNCHANGED <<event_cache, tasks, wsuds, busVars, argVars, fpVars, batVars, locVars, normVars>>

\* handle_websocket resumes in its backlog loop on an open connection: the
\* next backlog event is sent, or the loop has ended and wait_closed is awaited
WsBacklog(c) ==
    /\ handler[c].pc = "backlog"
    /\ handler[c].open
    /\ IF handler[c].todo = <<>>
       THEN /\ handler' = [handler EXCEPT ![c].pc = "waiting"]
            /\ UNCHANGED <<websocket_clients, received>>
       ELSE /\ handler' = [handler EXCEPT ![c].todo = Tail(@)]
            /\ received' = sent(received, c, Head(handler[c].todo))
            /\ UNCHANGED websocket_clients
    /\ UNCHANGED <<event_cache, tasks, wsuds, busVars, argVars, fpVars, batVars, locVars, normVars>>

\* the subscriber closes its connection
WsClose(c) ==
    /\ handler[c].pc \in {"backlog", "waiting"}
    /\ handler[c].open
    /\ handler' = [handler EXCEPT ![c].open = FALSE]
    /\ UNCHANGED <<event_cache, websocket_clients, tasks, wsuds, received,
                   busVars, argVars, fpVars, batVars, locVars, normVars>>

\* handle_websocket resumes on a closed connection (ConnectionClosed from
\* send, or wait_closed returns): finally, websocket_clients.discard
WsHandlerEnd(c) ==
    /\ handler[c].pc \in {"backlog", "waiting"}
    /\ ~handler[c].open
    /\ handler' = [handler EXCEPT ![c] = [pc |-> "done", todo |-> <<>>, open |-> FALSE]]
    /\ websocket_clients' = websocket_clients \ {c}
    /\ UNCHANGED <<event_cache, tasks, wsuds, received, busVars, argVars, fpVars, batVars, locVars, normVars>>

WsNext ==
    \/ WsUdsMalformed
    \/ WsUdsEvent
    \/ \E e \in 1..MaxAdds : Broadcast(e)
    \/ \E c \in {"w1"} : WsConnect(c)
    \/ \E c \in {"w1"} : WsBacklog(c)
    \/ \E c \in {"w1"} : WsClose(c)
    \/ \E c \in {"w1"} : WsHandlerEnd(c)

\* handle_websocket for a subscriber that connects before the first event
WsConnectEarly(c) ==
    /\ tasks = <<>>
    /\ WsConnect(c)

\* the websocket bus with its subscribers connected first: records arrive,
\* broadcasts run, subscribers leave
WsBroadcastNext ==
    \/ WsUdsEvent
    \/ \E e \in 1..MaxAdds : Broadcast(e)
    \/ \E c \in WsSubscribers : WsConnectEarly(c)
    \/ \E c \in WsSubscribers : WsClose(c)
    \/ \E c \in WsSubscribers : WsHandlerEnd(c)

\* ------------------------------------------------------- LocalOutput
\* the batches the bus may hand over: the lengths in bytes of the lines
\* json.dumps(event) + "\n" of their events
Batches == UNION {[1..n -> 1..MaxLineBytes] : n \in 1..MaxBatchLen}

RECURSIVE SumSeq(_)
SumSeq(q) == IF q = <<>> THEN 0 ELSE Head(q) + SumSeq(Tail(q))

\* self.current_file = None
NoCurrentFile == -1

\* __init__: enabled as the configuration has it, no current file, an empty
\* directory
LocInit ==
    /\ enabled \in BOOLEAN
    /\ current_file = NoCurrentFile
    /\ file_size = 0
    /\ utcsecond = 0
    /\ files = [n \in 0..MaxSeconds |-> -1]
    /\ written = 0

\* _rotate_file: the new name is the current second, file_size restarts at 0
rotate_file(now) == [current_file |-> now, file_size |-> 0]

\* __call__(events): rotation is decided once, before the batch; the whole
\* batch is then appended to the file of that name
LocalCall ==
    \E events \in Batches :
        /\ written + SumSeq(events) <= MaxWritten
        /\ IF ~enabled
           THEN UNCHANGED <<current_file, file_size, files, written>>
           ELSE LET cur == IF current_file = NoCurrentFile \/ file_size >= MaxFileSize
                           THEN rotate_file(utcsecond)
                           ELSE [current_file |-> current_file, file_size |-> file_size]
                    b == SumSeq(events)
                IN /\ current_file' = cur.current_file
                   /\ file_size' = cur.file_size + b
                   /\ files' = [files EXCEPT ![cur.current_file] =
                                  (IF @ = -1 THEN 0 ELSE @) + b]
                   /\ written' = written + b
        /\ UNCHANGED <<enabled, utcsecond, busVars, argVars, fpVars, batVars, wsVars, normVars>>

\* a second of wall clock passes
LocalTick ==
    /\ utcsecond < MaxSeconds
    /\ utcsecond' = utcsecond + 1
    /\ UNCHANGED <<enabled, current_file, file_size, files, written,
                   busVars, argVars, fpVars, batVars, wsVars, normVars>>

LocNext ==
    \/ LocalCall
    \/ LocalTick

\* ------------------------------------------- Event and normalize_event
\* JSON values as normalize_event sees them: a key that is absent, null, a
\* string, a number other than 0
Absent == [kind |-> "absent", val |-> ""]
Null == [kind |-> "null", val |-> ""]
Str(s) == [kind |-> "str", val |-> s]
Num(s) == [kind |-> "num", val |-> s]

\* bool(v) of Python
Truthy(v) == (v.kind = "str" /\ v.val # "") \/ v.kind = "num"
\* mapping.get(key, default), v being the entry of the key
get(v, default) == IF v.kind = "absent" THEN default ELSE v
\* a or b
or(a, b) == IF Truthy(a) THEN a ELSE b

\* the context of a raw mapping: absent, null, or a dict with the keys `keys`
\* besides a possible "message"
NoDict(k) == [kind |-> k, keys |-> {}, message |-> Absent]
Dict(ks, m) == [kind |-> "dict", keys |-> ks, message |-> m]

\* _infer_source: source_map
source_map ==
    << <<"file_integrity_change", "fsevents_watcher">>,
       <<"process_anomaly", "process_watcher">>,
       <<"network_connection", "network_watcher">>,
       <<"dns_request", "network_watcher">>,
       <<"ids_alert", "ids_engine">>,
       <<"ssh_key_change", "ssh_auditor">>,
       <<"user_account_change", "user_account_auditor">>,
       <<"cron_modification", "cron_auditor">>,
       <<"tcc_permission_change", "tcc_auditor">>,
       <<"privacy_event", "tcc_auditor">>,
       <<"ransomware_activity", "ransomware_detector">>,
       <<"signature_hit", "signature_engine">>,
       <<"config_change", "config_manager">> >>

\* _infer_source: legacy_map
legacy_map ==
    << <<"filesystem", "fsevents_watcher">>,
       <<"fs", "fsevents_watcher">>,
       <<"process", "process_watcher">>,
       <<"network", "network_watcher">>,
       <<"ids", "ids_engine">>,
       <<"correlation", "ids_engine">>,
       <<"ssh", "ssh_auditor">>,
       <<"user_accounts", "user_account_auditor">>,
       <<"cron", "cron_auditor">>,
       <<"tcc_privacy", "tcc_auditor">>,
       <<"privacy", "tcc_auditor">>,
       <<"ransomware", "ransomware_detector">>,
       <<"signature", "signature_engine">> >>

\* table.get(key, default) on one of the two tables
table_get(table, key, default) ==
    LET hits == {i \in 1..Len(table) : key.kind = "str" /\ table[i][1] = key.val}
    IN IF hits = {} THEN default ELSE Str(table[CHOOSE i \in hits : TRUE][2])

\* _infer_source(event_type)
infer_source(event_type) ==
    or(table_get(source_map, event_type, Null),
       table_get(legacy_map, event_type, Str("unknown")))

\* _validate_event_spec: valid_types and the severity list
valid_types == {source_map[i][1] : i \in 1..Len(source_map)}
valid_severities == {"low", "medium", "high", "critical"}

\* the identifiers, and which of them uuid_pattern matches (lower-cased)
GeneratedUuid == "0059872b-e23a-42d2-b453-05e0e42bdb0f"
IdStrings == {"3f2b8c1e-9d4a-4b6f-8a2e-1c5d7e9f0a3b", "evt-1"}
uuid_pattern_matches(s) == s \in {"3f2b8c1e-9d4a-4b6f-8a2e-1c5d7e9f0a3b", GeneratedUuid}

\* datetime.utcnow().isoformat() + 'Z': six digits of microseconds, none when
\* the microsecond is 0
UtcNowStrings == {"2024-01-15T10:30:46.227399Z", "2024-01-15T10:30:47Z"}
\* the timestamps, and which of them iso8601_pattern matches
TimestampStrings == {"2024-01-15T10:30:45Z", "yesterday"}
iso8601_pattern_matches(s) == s \in {"2024-01-15T10:30:45Z", "2024-01-15T10:30:47Z"}

\* the raw mappings: every key absent or present, with values inside and
\* outside the formats and enumerations
TypeNames == valid_types \cup {legacy_map[i][1] : i \in 1..Len(legacy_map)}
                \cup {"unknown", "custom.type"}
RawMappings ==
    [event_id : {Absent, Str(""), Num("123")} \cup {Str(x) : x \in IdStrings},
     id : {Absent, Str("evt-7")},
     timestamp : {Absent, Num("1705314645")} \cup {Str(x) : x \in TimestampStrings},
     event_type : {Absent, Str(""), Str("dns_request")},
     type : {Absent} \cup {Str(x) : x \in TypeNames},
     severity : {Absent, Null, Str("high"), Str("info")},
     source : {Absent, Str("custom_collector")},
     message : {Absent, Str("Test event")},
     context : {NoDict("absent"), NoDict("null"), Dict({"pid"}, Absent),
                Dict({"pid"}, Str("from context"))}]

\* no Event: the call raised
NoEvent == [event_id |-> Null, timestamp |-> Null, type |-> Null, severity |-> Null,
            source |-> Null, message |-> Null, context |-> NoDict("absent")]
NoJson == [absent |-> TRUE]

\* the raw mapping of the repository's tests
TestEvent ==
    [event_id |-> Absent, id |-> Absent, timestamp |-> Str("2024-01-15T10:30:45Z"),
     event_type |-> Absent, type |-> Str("process"), severity |-> Str("high"),
     source |-> Absent, message |-> Str("Test event"),
     context |-> Dict({"pid"}, Absent)]

\* the raw mapping r in hand, nothing done with it yet
NormInitWith(r) ==
    /\ raw_data = r
    /\ normPc = "raw"
    /\ event = NoEvent
    /\ warned = FALSE
    /\ message_json = NoJson

\* _validate_event_spec: True ("ok"), False ("invalid"), or an exception of
\* event_id.lower() or re.match on a value that is not a string ("raises")
validate_event_spec(event_id, event_type, severity, timestamp) ==
    IF event_id.kind # "str" THEN "raises"
    ELSE IF ~uuid_pattern_matches(event_id.val) THEN "invalid"
    ELSE IF ~(event_type.kind = "str" /\ event_type.val \in valid_types) THEN "invalid"
    ELSE IF ~(severity.kind = "str" /\ severity.val \in valid_severities) THEN "invalid"
    ELSE IF timestamp.kind # "str" THEN "raises"
    ELSE IF ~iso8601_pattern_matches(timestamp.val) THEN "invalid"
    ELSE "ok"

\* normalize_event: raw_data.get('event_id') or raw_data.get('id')
raw_event_id(raw) == or(get(raw.event_id, Null), get(raw.id, Null))
\* normalize_event: raw_data.get('event_type') or raw_data.get('type', ...)
raw_event_type(raw) ==
    or(get(raw.event_type, Null), get(raw.type, Str("process_anomaly")))

\* normalize_event from the validation on, with the identifier and the source
\* it has settled on
normalize_rest(raw, now, event_id, source) ==
    LET timestamp == get(raw.timestamp, Str(now))
        event_type == raw_event_type(raw)
        severity == get(raw.severity, Str("medium"))
        context == get(raw.context, Dict({}, Absent))
        valid == validate_event_spec(event_id, event_type, severity, timestamp)
    IN IF valid = "raises" \/ context.kind # "dict"
       THEN [raised |-> TRUE, warned |-> valid = "invalid", event |-> NoEvent]
       ELSE [raised |-> FALSE, warned |-> valid = "invalid",
             event |-> [event_id |-> event_id, timestamp |-> timestamp,
                        type |-> event_type, severity |-> severity, source |-> source,
                        message |-> get(context.message, get(raw.message, Str(""))),
                        context |-> context]]

\* (normalize_event with the source default of Event.from_dict)
normalize_event_source_unknown(raw, uuid4, now) ==
    normalize_rest(raw, now,
                   IF Truthy(raw_event_id(raw)) THEN raw_event_id(raw) ELSE Str(uuid4),
                   get(raw.source, Str("unknown")))

\* (normalize_event generating an identifier only when the key is absent)
normalize_event_uuid_if_absent(raw, uuid4, now) ==
    normalize_rest(raw, now,
                   IF raw.event_id.kind # "absent" THEN raw.event_id ELSE Str(uuid4),
                   get(raw.source, infer_source(raw_event_type(raw))))

\* normalize_event(raw_data), uuid4 and now being what uuid.uuid4() and
\* datetime.utcnow() give
normalize_event(raw, uuid4, now) ==
    normalize_rest(raw, now,
                   IF Truthy(raw_event_id(raw)) THEN raw_event_id(raw) ELSE Str(uuid4),
                   get(raw.source, infer_source(raw_event_type(raw))))

\* Event.from_dict(data)
from_dict(data, uuid4, now) ==
    LET event_id == or(or(get(data.event_id, Null), get(data.id, Null)), Str(uuid4))
        context == get(data.context, Dict({}, Absent))
    IN IF context.kind # "dict"
       THEN [raised |-> TRUE, warned |-> FALSE, event |-> NoEvent]
       ELSE [raised |-> FALSE, warned |-> FALSE,
             event |-> [event_id |-> event_id,
                        timestamp |-> get(data.timestamp, Str(now)),
                        type |-> or(get(data.event_type, Null),
                                    get(data.type, Str("process_anomaly"))),
                        severity |-> get(data.severity, Str("medium")),
                        source |-> get(data.source, Str("unknown")),
                        message |-> get(context.message, get(data.message, Str(""))),
                        context |-> context]]

\* Event.to_json, as the object json.loads gives back
to_json(e) ==
    [event_id |-> e.event_id,
     event_type |-> e.type,
     severity |-> e.severity,
     timestamp |-> e.timestamp,
     source |-> e.source,
     context |-> IF Truthy(e.message) THEN [e.context EXCEPT !.message = e.message]
                 ELSE e.context]

\* the outcome r of normalize_event or from_dict is taken
Returned(r, how) ==
    /\ normPc' = IF ~r.raised THEN how
                 ELSE IF how = "normalized" THEN "raised" ELSE "not_built"
    /\ event' = r.event
    /\ warned' = r.warned
    /\ UNCHANGED <<raw_data, message_json, busVars, argVars, fpVars, batVars, wsVars, locVars>>

\* bus.normalize_event(raw_data)
Normalize ==
    /\ normPc = "raw"
    /\ \E now \in UtcNowStrings :
         Returned(normalize_event(raw_data, GeneratedUuid, now), "normalized")

\* Event.from_dict(raw_data)
FromDict ==
    /\ normPc = "raw"
    /\ \E now \in UtcNowStrings :
         Returned(from_dict(raw_data, GeneratedUuid, now), "built")

\* json.loads(event.to_json())
ToJson ==
    /\ normPc \in {"normalized", "built"}
    /\ normPc' = IF normPc = "normalized" THEN "serialized" ELSE "built_serialized"
    /\ message_json' = to_json(event)
    /\ UNCHANGED <<raw_data, event, warned, busVars, argVars, fpVars, batVars, wsVars, locVars>>

NormNext ==
    \/ Normalize
    \/ FromDict
    \/ ToJson

\* ------------------------------------------- EventBusBatched: properties
\* the step is the n-th call of process_event
Submits == submitted'.n = submitted.n + 1
\* the record of that call carries a timestamp that parses
Parseable(e) == e.timestamp.kind # "bad"

\* C3: a record whose fingerprint was last appended with a timestamp less than
\* DEDUP_WINDOW before its own is not appended (one of the two is delivered);
\* a record whose fingerprint was never appended, or was last appended
\* DEDUP_WINDOW or more before, is appended.
C3_DedupWindow ==
    [][(Submits /\ Parseable(submitted'.event))
       => LET e == submitted'.event
              last == acceptedTs[hash_event(e)]
              d == e.timestamp.val - last.val
          IN /\ (last # NotSeen /\ 0 <= d /\ d < DEDUP_WINDOW)
                  => submitted'.outcome = "suppressed"
             /\ (last = NotSeen \/ d >= DEDUP_WINDOW)
                  => submitted'.outcome = "appended"]_vars

\* C12: a process_event call on a record whose timestamp is absent or does not
\* parse ends with the record appended to the event buffer.
C12_BadTimestampFailsOpen ==
    [][(Submits /\ ~Parseable(submitted'.event))
       => /\ submitted'.outcome = "appended"
          /\ event_buffer' # <<>>
          /\ event_buffer'[Len(event_buffer')].n = submitted'.n]_vars

\* C28: process_event suppresses a record only on account of a stored entry
\* of its fingerprint whose time lies less than DEDUP_WINDOW before the
\* record's own: never one that is later than the record's time, never one
\* DEDUP_WINDOW or more older.
C28_SuppressedOnlyWithinWindow ==
    [][(Submits /\ submitted'.outcome = "suppressed")
       => LET e == submitted'.event
              stored == recent_hashes[hash_event(e)]
              d == e.timestamp.val - stored.val
          IN /\ stored # NotSeen
             /\ 0 <= d
             /\ d < DEDUP_WINDOW]_vars

\* the set of context keys of a record, empty without a context
context_key_set(e) == IF e.context.present THEN e.context.keys ELSE {}

\* C29: two records with the same identifier have the same fingerprint, and
\* two records without identifier have the same fingerprint exactly when
\* they agree on type, source and context-key set.
C29_FingerprintByIdentifier ==
    hashed.pc = "hashed" =>
        LET a == hashed.a
            b == hashed.b
        IN /\ (a.event_id # "" /\ a.event_id = b.event_id)
                 => hashed.ha = hashed.hb
           /\ (a.event_id = "" /\ b.event_id = "")
                 => ( hashed.ha = hashed.hb
                      <=> /\ a.event_type = b.event_type
                          /\ a.source = b.source
                          /\ context_key_set(a) = context_key_set(b) )

\* the buffered events the step takes out of event_buffer
LeavesBuffer(x) ==
    /\ \E i \in 1..Len(event_buffer) : event_buffer[i] = x
    /\ \A i \in 1..Len(event_buffer') : event_buffer'[i] # x
\* the step sends subscriber c a batch that holds x
SentIn(x, c) ==
    /\ Len(got'[c]) = Len(got[c]) + 1
    /\ \E i \in 1..Len(got'[c][Len(got'[c])]) : got'[c][Len(got'[c])][i] = x

\* C25: an event leaves event_buffer only in a batch that is sent to a
\* subscriber: none is discarded by the full deque or by a batch formed while
\* no subscriber is connected.
C25_BufferedIsBroadcast ==
    [][\A x \in {event_buffer[i] : i \in 1..Len(event_buffer)} :
          LeavesBuffer(x) => \E c \in Subscribers : SentIn(x, c)]_vars

\* what a subscriber does with a tagged event: base64.b64decode,
\* gzip.decompress, json.loads
decoded(p) == p.b64.gz.json

InEmissionOrder(c) ==
    \A i, j \in 1..Len(received[c]) : i < j => received[c][i] < received[c][j]

\* every broadcast_event task has ended
BroadcastsEnded == \A e \in 1..Len(tasks) : tasks[e].pc \in {"done", "failed"}

\* C4: what a subscriber is sent is in emission order with nothing twice, so
\* nothing emitted during the backlog comes before the end of the backlog; and
\* once its backlog is sent and every broadcast has ended, a subscriber still
\* connected has been sent every event from the first of its backlog to the
\* last emitted.
C4_BacklogThenLiveInOrder ==
    \A c \in WsSubscribers :
        /\ InEmissionOrder(c)
        /\ (handler[c].pc = "waiting" /\ handler[c].open /\ BroadcastsEnded
            /\ received[c] # <<>>)
           => /\ received[c][Len(received[c])] = Len(tasks)
              /\ \A i \in 1..(Len(received[c]) - 1) :
                    received[c][i + 1] = received[c][i] + 1

\* ----------------------------------------------- socket ingress: properties
\* the step is a read of malformed JSON by one of the two listeners
WsMalformedStep == wsuds'.malformed = wsuds.malformed + 1
BatMalformedStep == uds'.malformed = uds.malformed + 1

\* C5: both listeners stay up whatever they read; a read of malformed JSON
\* leaves the cache, the subscribers, the broadcasts, the dedup map and the
\* event buffer as they were; and while the listener is up a valid record on
\* a new connection is taken: add_event caches it and schedules its broadcast,
\* process_event is called with it.
C5_MalformedJsonHarmless ==
    /\ [](wsuds.listening /\ uds.listening)
    /\ [][WsMalformedStep =>
            UNCHANGED <<event_cache, websocket_clients, handler, tasks, received>>]_vars
    /\ [][BatMalformedStep =>
            UNCHANGED <<clients, event_buffer, recent_hashes, submitted, got>>]_vars
    /\ [](Len(tasks) + wsuds.malformed < MaxAdds => ENABLED WsUdsEvent)
    /\ [](submitted.n + uds.malformed < MaxSubmits
            => ENABLED BatUdsConnect \/ ENABLED BatUdsEvent)
    /\ [][Len(tasks') = Len(tasks) + 1 =>
            /\ event_cache'[Len(event_cache')] = Len(tasks')
            /\ tasks'[Len(tasks')].pc = "pending"]_vars

\* both listeners have read malformed JSON and then, on a connection made
\* afterwards, a valid record that went into the pipeline
C5_Witness ==
    /\ wsuds.malformed > 0 /\ wsuds.validAfter
    /\ uds.malformed > 0 /\ uds.validAfter

\* broadcast e of the websocket bus returns or raises in this step
BroadcastEnds(e) ==
    /\ e \in 1..Len(tasks)
    /\ tasks[e].pc = "iterating"
    /\ tasks'[e].pc \in {"done", "failed"}

\* C18: when a broadcast completes, every subscriber whose send failed is out
\* of the subscriber set, and every other subscriber that was in the set when
\* the broadcast began and still has its connection open has received the
\* message and is still in the set: a failing or leaving subscriber does not
\* keep the message from the others.
C18_BroadcastReachesTheOthers ==
    [][\A e \in 1..MaxAdds :
          BroadcastEnds(e) =>
              /\ \A c \in tasks[e].disconnected : c \notin websocket_clients'
              /\ \A c \in tasks[e].audience \ tasks[e].disconnected :
                     handler[c].open =>
                         /\ c \in websocket_clients'
                         /\ \E i \in 1..Len(received'[c]) : received'[c][i] = e]_vars

\* subscriber c was in the client set when broadcast e began and is connected,
\* in the set, when it ends
StaysConnected(c, e) ==
    /\ c \in tasks[e].audience
    /\ handler[c].pc = "waiting"
    /\ handler[c].open
    /\ c \in websocket_clients'

\* C27: a broadcast_event that ends has written its event to every subscriber
\* that stayed connected from its beginning to its end, whatever other
\* subscribers did to websocket_clients meanwhile.
C27_ConnectedSubscriberGetsEvent ==
    [][\A e \in 1..MaxAdds : \A c \in WsSubscribers :
          (BroadcastEnds(e) /\ StaysConnected(c, e))
              => \E i \in 1..Len(received'[c]) : received'[c][i] = e]_vars

\* ------------------------------------------------- LocalOutput: properties
\* the files LocalOutput has created
Files == {n \in DOMAIN files : files[n] # -1}

\* C6: once more than max_file_size bytes have been written, there is more
\* than one file and every file is smaller than max_file_size.
C6_RotatedBelowThreshold ==
    written > MaxFileSize =>
        /\ Cardinality(Files) > 1
        /\ \A n \in Files : files[n] < MaxFileSize

\* ------------------------------------------ normalize_event: properties
\* the identifier, timestamp and severity clauses of C13: absent (or empty)
\* ones are filled in, supplied ones are kept
DefaultsFilled ==
    /\ (~Truthy(raw_data.event_id) /\ ~Truthy(raw_data.id))
          => event.event_id = Str(GeneratedUuid)
    /\ Truthy(raw_data.event_id) => event.event_id = raw_data.event_id
    /\ raw_data.timestamp = Absent
          => event.timestamp.kind = "str" /\ event.timestamp.val \in UtcNowStrings
    /\ raw_data.timestamp # Absent => event.timestamp = raw_data.timestamp
    /\ raw_data.severity = Absent => event.severity = Str("medium")
    /\ raw_data.severity # Absent => event.severity = raw_data.severity

\* the type the raw mapping supplies, Null when it supplies none
SuppliedType ==
    IF Truthy(raw_data.event_type) THEN raw_data.event_type
    ELSE IF raw_data.type # Absent THEN raw_data.type
    ELSE Null
\* a type of the current enumeration or of the legacy names
Recognized(t) ==
    t.kind = "str" /\ t.val \in valid_types \cup {legacy_map[i][1] : i \in 1..Len(legacy_map)}

C14_NeverRaisesValuesKept ==
    /\ normPc # "raised"
    /\ normPc = "normalized" =>
        /\ SuppliedType # Null => event.type = SuppliedType
        /\ raw_data.severity # Absent => event.severity = raw_data.severity
        /\ raw_data.source # Absent => event.source = raw_data.source
        /\ (raw_data.message # Absent /\ raw_data.context.message = Absent)
              => event.message = raw_data.message

\* the source _infer_source has for the four types of test_source_inference
TestedSources ==
    /\ event.type = Str("process") => event.source = Str("process_watcher")
    /\ event.type = Str("network") => event.source = Str("network_watcher")
    /\ event.type = Str("fs") => event.source = Str("fsevents_watcher")
    /\ event.type = Str("unknown") => event.source = Str("unknown")

\* C15: in the Event normalize_event returns, a supplied source is kept; with
\* no source supplied, the source is the entry of the type in the current or
\* the legacy table, whatever the other fields are, and "unknown" for a type
\* in neither table.
C15_SourceFromTypeAlone ==
    normPc = "normalized" =>
        /\ raw_data.source # Absent => event.source = raw_data.source
        /\ raw_data.source = Absent =>
            /\ event.source = infer_source(event.type)
            /\ TestedSources
            /\ Recognized(event.type) <=> event.source # Str("unknown")

\* a legacy type without a source came back with the source of the table
C15_Witness ==
    /\ normPc = "normalized"
    /\ raw_data.source = Absent
    /\ event.type = Str("fs")
    /\ event.source = Str("fsevents_watcher")

\* C16: the object parsed from to_json() of a normalized event has the
\* event's type under the key "type".
C16_JsonCarriesTypeKey ==
    normPc = "serialized" =>
        /\ "type" \in DOMAIN message_json
        /\ message_json["type"] = event.type

\* every component as constructed, LocalOutput with the default enabled = True
FpDefault == CHOOSE e \in FpEvents : TRUE

Init ==
    /\ BusInit /\ BatInit /\ WsInit /\ LocInit /\ enabled /\ NormInitWith(TestEvent)
    /\ FpInitWith(FpDefault, FpDefault)
    /\ ArgInit

\* every component as constructed, LocalOutput under either configuration
InitLocal ==
    /\ BusInit /\ BatInit /\ WsInit /\ LocInit /\ NormInitWith(TestEvent)
    /\ FpInitWith(FpDefault, FpDefault)
    /\ ArgInit

\* every component as constructed, and any raw mapping for normalize_event
InitNormalize ==
    /\ BusInit /\ BatInit /\ WsInit /\ LocInit /\ enabled
    /\ \E r \in RawMappings : NormInitWith(r)
    /\ FpInitWith(FpDefault, FpDefault)
    /\ ArgInit

\* every component as constructed, and any two records for _hash_event
InitFingerprint ==
    /\ BusInit /\ BatInit /\ WsInit /\ LocInit /\ enabled /\ NormInitWith(TestEvent)
    /\ \E a \in FpEvents, b \in FpEvents : FpInitWith(a, b)
    /\ ArgInit

SpecBus == Init /\ [][BusNext]_vars

\* the bus with its handlers registered and started, emit called from several
\* threads while the worker and the flusher run
EmitThreadsNext ==
    \/ RegisterOutput
    \/ Start
    \/ \E t \in EmitThreads : EmitPut(t)
    \/ \E t \in EmitThreads : EmitLoad(t)
    \/ \E t \in EmitThreads : EmitStore(t)
    \/ WorkerCheck
    \/ WorkerGet
    \/ WorkerEmpty
    \/ FlusherCheck
    \/ FlusherWake
    \/ FlushGlob("flusher")
    \/ FlushOpen("flusher")
    \/ FlushProcess("flusher")

SpecEmitThreads == Init /\ [][EmitThreadsNext]_vars

\* the running bus with callers that pass their mappings to emit
EmitMappingNext ==
    \/ RegisterOutput
    \/ Start
    \/ EmitMapping
    \/ WorkerCheck
    \/ WorkerGet
    \/ WorkerEmpty

SpecEmitMapping == Init /\ [][EmitMappingNext]_vars

\* the running bus under a burst of emits, with the worker and the overflow
\* replay of the flusher
BurstNext ==
    \/ RegisterOutput
    \/ Start
    \/ EmitQueued
    \/ EmitBurst
    \/ WorkerCheck
    \/ WorkerGet
    \/ WorkerEmpty
    \/ FlusherCheck
    \/ FlusherWake
    \/ FlushGlob("flusher")
    \/ FlushOpen("flusher")
    \/ FlushProcess("flusher")

SpecBurst == Init /\ [][BurstNext]_vars

\* the bus kept running: stop() is never called, and the worker thread is
\* scheduled again and again
Worker == WorkerCheck \/ WorkerGet \/ WorkerEmpty

BusLiveNext ==
    \/ RegisterOutput
    \/ Start
    \/ EmitQueued
    \/ EmitBuffered
    \/ EmitWriteFails
    \/ WorkerCheck
    \/ WorkerGet
    \/ WorkerEmpty
    \/ FlusherCheck
    \/ FlusherWake
    \/ FlushGlob("flusher")
    \/ FlushOpen("flusher")
    \/ FlushProcess("flusher")

SpecBatched == Init /\ [][BatNext]_vars

\* the dedup filter alone: the socket ingress and the batch processor, with
\* no subscriber connected
BatDedupNext ==
    \/ BatTick
    \/ BatUdsConnect
    \/ BatUdsEof
    \/ BatUdsMalformed
    \/ BatUdsEvent
    \/ BatBatch

SpecDedup == Init /\ [][BatDedupNext]_vars

\* the batched bus fed with records around the compression threshold
BatCompressNext ==
    \/ BatTick
    \/ BatUdsConnect
    \/ BatUdsThresholdEvent
    \/ BatBatch

SpecCompress == Init /\ [][BatCompressNext]_vars

SpecWs == Init /\ [][WsNext]_vars

SpecBroadcast == Init /\ [][WsBroadcastNext]_vars

SpecLocal == InitLocal /\ [][LocNext]_vars

SpecNormalize == InitNormalize /\ [][NormNext]_vars

SpecFingerprint == InitFingerprint /\ [][HashPair]_vars

\* the two socket listeners and what their records set going
IngressNext ==
    \/ WsUdsMalformed
    \/ WsUdsEvent
    \/ \E e \in 1..MaxAdds : Broadcast(e)
    \/ BatUdsConnect
    \/ BatUdsEof
    \/ BatUdsMalformed
    \/ BatUdsEvent

SpecIngress == Init /\ [][IngressNext]_vars

SpecBusLive == Init /\ [][BusLiveNext]_vars /\ WF_vars(Worker)

\* the bus kept running with handlers whose calls may block: the worker
\* thread is scheduled again and again, when a blocked call returns is up to
\* the sink
BlockingNext ==
    \/ RegisterOutput
    \/ Start
    \/ EmitQueued
    \/ EmitBuffered
    \/ WorkerCheck
    \/ WorkerGet
    \/ WorkerEmpty
    \/ WorkerBlocks
    \/ HandlerReturns

\* the bus kept running with overflow writes that may fail half-way; the
\* flusher thread is scheduled again and again
Flusher ==
    \/ FlusherCheck
    \/ FlusherWake
    \/ FlushGlob("flusher")
    \/ FlushOpen("flusher")
    \/ FlushProcess("flusher")

ReplayNext ==
    \/ RegisterOutput
    \/ Start
    \/ EmitQueued
    \/ EmitBuffered
    \/ EmitWriteTorn
    \/ WorkerCheck
    \/ WorkerGet
    \/ WorkerEmpty
    \/ Flusher

SpecReplay == Init /\ [][ReplayNext]_vars /\ WF_vars(Flusher)

SpecBlocking ==
    Init /\ [][BlockingNext]_vars /\ WF_vars(Worker \/ WorkerBlocks)

====
